---- MODULE Spec2Model ----
(***************************************************************************)
(* Fate Weaver chat: the response-orchestration pipeline                   *)
(* (responseTextAudio.py), the Dash callback that drives it                *)
(* (app_test.py) and the cached voice synthesis (testVoice.py).            *)
(*                                                                         *)
(* A Python str is a sequence of lexemes (chunks of characters); a Python  *)
(* value is a record [k, v]: its kind and its lexemes.                     *)
(***************************************************************************)
EXTENDS Integers, Sequences, FiniteSets, TLC

\* ------------------------------------------------------------------ bounds
MaxReq == 2          \* callback invocations of update_chat in one run
MaxWorkers == 2      \* synthesis requests of testVoice in one run
MaxHist == 4         \* history length in the window specification
MaxN == 3            \* largest window size tried in the window specification

\* --------------------------------------------------------- Python values
Q == "\""
WS == " "

PyStr(s) == [k |-> "str", v |-> s]
PyNone == [k |-> "none", v |-> <<>>]
EmptyStr == PyStr(<<>>)
NARRATOR == PyStr(<<"Narrator">>)
YOU == PyStr(<<"You">>)

\* Python truthiness of a value (the operand of `not x`, `if x`, `x or y`).
Truthy(x) ==
  CASE x.k = "none" -> FALSE
    [] x.k = "str" -> x.v # <<>>
    [] x.k = "num" -> x.v # <<"0">>
    [] x.k = "bool" -> x.v = <<"true">>
    [] OTHER -> \E i \in 1..Len(x.v) : x.v[i] \notin {"[", "]", "{", "}", WS}

\* x or d
PyOr(x, d) == IF Truthy(x) THEN x ELSE d

\* str.strip(): leading and trailing whitespace removed.
RECURSIVE LStrip(_)
LStrip(s) == IF s # <<>> /\ Head(s) = WS THEN LStrip(Tail(s)) ELSE s

RECURSIVE RStrip(_)
RStrip(s) ==
  IF s # <<>> /\ s[Len(s)] = WS THEN RStrip(SubSeq(s, 1, Len(s) - 1)) ELSE s

Strip(s) == RStrip(LStrip(s))

\* ------------------------------------------------------------ json.loads
Numbers == {"0", "5", "7"}
NoMembers == [x \in {} |-> PyNone]
ParseFail == [ok |-> FALSE, k |-> "none", v |-> <<>>, m |-> NoMembers, rest |-> <<>>]
Parsed(kind, t, rest, members) ==
  [ok |-> TRUE, k |-> kind, v |-> SubSeq(t, 1, Len(t) - Len(rest)),
   m |-> members, rest |-> rest]

RECURSIVE ParseValue(_), ParseMembers(_, _, _), ParseElems(_, _)

\* One JSON value at the head of t (no leading whitespace): what it is, the
\* lexemes it spans, its members when it is an object, and what follows it.
ParseValue(t) ==
  IF t = <<>> THEN ParseFail
  ELSE CASE t[1] = Q ->
              IF Len(t) >= 2 /\ t[2] = Q
                THEN [Parsed("str", t, SubSeq(t, 3, Len(t)), NoMembers) EXCEPT !.v = <<>>]
              ELSE IF Len(t) >= 3 /\ t[3] = Q
                THEN [Parsed("str", t, SubSeq(t, 4, Len(t)), NoMembers) EXCEPT !.v = <<t[2]>>]
              ELSE ParseFail
         [] t[1] = "null" -> Parsed("none", t, Tail(t), NoMembers)
         [] t[1] \in {"true", "false"} -> Parsed("bool", t, Tail(t), NoMembers)
         [] t[1] \in Numbers -> Parsed("num", t, Tail(t), NoMembers)
         [] t[1] = "[" ->
              LET r == ParseElems(Tail(t), TRUE)
              IN IF r.ok THEN Parsed("list", t, r.rest, NoMembers) ELSE ParseFail
         [] t[1] = "{" ->
              LET r == ParseMembers(Tail(t), NoMembers, TRUE)
              IN IF r.ok THEN Parsed("dict", t, r.rest, r.m) ELSE ParseFail
         [] OTHER -> ParseFail

\* The elements of an array after "[" or ",": ok and what follows the "]".
ParseElems(t, first) ==
  LET t1 == LStrip(t)
  IN IF t1 = <<>> THEN ParseFail
     ELSE IF first /\ t1[1] = "]" THEN [ParseFail EXCEPT !.ok = TRUE, !.rest = Tail(t1)]
     ELSE LET e == ParseValue(t1)
              t2 == LStrip(e.rest)
          IN IF ~e.ok \/ t2 = <<>> THEN ParseFail
             ELSE IF t2[1] = "," THEN ParseElems(Tail(t2), FALSE)
             ELSE IF t2[1] = "]" THEN [ParseFail EXCEPT !.ok = TRUE, !.rest = Tail(t2)]
             ELSE ParseFail

\* The members of an object after "{" or ",": a later key overrides an earlier.
ParseMembers(t, m, first) ==
  LET t1 == LStrip(t)
  IN IF t1 = <<>> THEN ParseFail
     ELSE IF first /\ t1[1] = "}"
       THEN [ParseFail EXCEPT !.ok = TRUE, !.m = m, !.rest = Tail(t1)]
     ELSE LET key == ParseValue(t1)
              t2 == LStrip(key.rest)
          IN IF ~key.ok \/ key.k # "str" \/ t2 = <<>> \/ Head(t2) # ":" THEN ParseFail
             ELSE LET val == ParseValue(LStrip(Tail(t2)))
                      t3 == LStrip(val.rest)
                      m2 == (key.v :> [k |-> val.k, v |-> val.v]) @@ m
                  IN IF ~val.ok \/ t3 = <<>> THEN ParseFail
                     ELSE IF t3[1] = "," THEN ParseMembers(Tail(t3), m2, FALSE)
                     ELSE IF t3[1] = "}"
                       THEN [ParseFail EXCEPT !.ok = TRUE, !.m = m2, !.rest = Tail(t3)]
                     ELSE ParseFail

\* json.loads(raw): ok is FALSE where it raises.
JsonLoads(raw) ==
  LET r == ParseValue(LStrip(raw))
  IN IF r.ok /\ LStrip(r.rest) = <<>> THEN [r EXCEPT !.rest = <<>>] ELSE ParseFail

\* data.get(key): None for an absent key; raises (ok FALSE) unless data is a dict.
HasGet(data) == data.ok /\ data.k = "dict"
DataGet(data, key) == IF <<key>> \in DOMAIN data.m THEN data.m[<<key>>] ELSE PyNone

\* ------------------------------------------------------------ world data
\* characters.json as loaded at start-up: the roster of this run.
CHARACTERS ==
  << [name |-> PyStr(<<"Mira">>), voiceId |-> "v-mira"],
     [name |-> PyStr(<<"Old Tom">>), voiceId |-> "v-tom"],
     [name |-> EmptyStr, voiceId |-> "v-anon"] >>

\* [c.get("name") for c in CHARACTERS if c.get("name")]
CHAR_NAMES == {CHARACTERS[i].name : i \in {j \in 1..Len(CHARACTERS) : Truthy(CHARACTERS[j].name)}}

\* ------------------------------------------------------- context helpers
Max(a, b) == IF a >= b THEN a ELSE b
Min(a, b) == IF a <= b THEN a ELSE b
DefaultWindow == 20

\* Python's history[start:] for any integer start: a negative start counts
\* from the end, and both ends are clamped to the list.
SliceFrom(history, start) ==
  LET len == Len(history)
      from == IF start < 0 THEN Max(len + start, 0) ELSE Min(start, len)
  IN SubSeq(history, from + 1, len)

\* history[-n:]
last_n_messages(history, n) == SliceFrom(history, 0 - n)

\* ------------------------------------------------ response contract parser
\* raw = (resp.text or "").strip()
RawOf(respText) == Strip(PyOr(respText, EmptyStr).v)

\* A slip: a missing text falls back to the raw response.
DecodeFields_rawtext(data, raw) ==
  [speaker |-> PyOr(DataGet(data, "speaker"), NARRATOR),
   text |-> PyOr(DataGet(data, "text"), PyStr(raw)),
   location |-> PyOr(DataGet(data, "location"), EmptyStr)]

\* The three assignments of the try block, for data a dict.
DecodeFields(data, raw) ==
  [speaker |-> PyOr(DataGet(data, "speaker"), NARRATOR),
   text |-> PyOr(DataGet(data, "text"), EmptyStr),
   location |-> PyOr(DataGet(data, "location"), EmptyStr)]

\* A slip: the fallback keeps no text.
Fallback_notext(raw) == [speaker |-> NARRATOR, text |-> EmptyStr, location |-> EmptyStr]

\* The values set before the try block, kept when it raises.
Fallback(raw) == [speaker |-> NARRATOR, text |-> PyStr(raw), location |-> EmptyStr]

\* Step 5: json.loads raises, or data.get raises on the first assignment
\* (data is no dict), and nothing is assigned; or all three are assigned.
Decode(raw) ==
  LET data == JsonLoads(raw)
  IN IF HasGet(data) THEN DecodeFields(data, raw) ELSE Fallback(raw)

\* -------------------------------------------------------- speaker resolver
\* A slip: the decoded speaker is passed on as it is.
ResolveSpeaker_unchecked(speaker) == speaker

ResolveSpeaker(speaker) ==
  IF speaker \notin CHAR_NAMES /\ speaker # NARRATOR THEN NARRATOR ELSE speaker

\* ----------------------------------------------------------- audio store
\* s.lower().replace(" ", "-") with everything but alphanumerics, "-" and
\* "_" dropped, lexeme by lexeme.
SafeLex(c) ==
  CASE c = "Mira" -> <<"mira">>
    [] c = "Old Tom" -> <<"old-tom">>
    [] c = "Narrator" -> <<"narrator">>
    [] c \in {"0", "1", "2", "5", "7"} -> <<c>>
    [] OTHER -> <<>>

RECURSIVE _safe_filename(_)
_safe_filename(s) == IF s = <<>> THEN <<>> ELSE SafeLex(Head(s)) \o _safe_filename(Tail(s))

\* sha256(voice_id + "||" + text)[:12]: the digest stands for the pair it is
\* computed from (distinct pairs of a run are taken not to collide).
_hash_for(text, voice_id) == [voice |-> voice_id, text |-> text]

\* Path(out_dir) / f"{name_part or 'character'}-{hash_part}.mp3"
OutPath(out_dir, name_part, hash_part) ==
  [dir |-> out_dir,
   name |-> IF name_part # <<>> THEN name_part ELSE <<"character">>,
   hash |-> hash_part]

Exists(store, path) == path \in DOMAIN store
WriteBytes(store, path, bytes) ==
  (path :> [bytes |-> bytes,
            writes |-> IF Exists(store, path) THEN store[path].writes + 1 ELSE 1]) @@ store

\* The voice of a speaker of the roster, by name; a voice made on demand
\* for a speaker it does not list (the narrator).
VoiceOfSpeaker(speaker) ==
  IF \E i \in 1..Len(CHARACTERS) : CHARACTERS[i].name = speaker
    THEN CHARACTERS[CHOOSE i \in 1..Len(CHARACTERS) : CHARACTERS[i].name = speaker].voiceId
    ELSE "v-new"

\* ------------------------------------------------------------------ state
VARIABLES
  env,        \* the run's surroundings: the replies the generation service
              \* may give, the messages the user may type, whether the user
              \* may click Send while a reply is pending
  memory,     \* dcc.Store "memory": the history held by the browser
  player,     \* html.Audio "audio-player": its src, and whether the
              \* clientside callback is still to run for it
  reqs,       \* the invocations of update_chat
  files,      \* the audio store: path -> bytes and how often it was written
  calls,      \* requests placed with the two external services
  submitted,  \* the non-empty messages sent, in the order of sending
  workers,    \* the invocations of synthesize_random_directional_sample_mp3
  win,        \* the window specification: a history, a size, the slice
  proc        \* the app's process: GEMINI_API_KEY of its environment, and
              \* whether its modules are still loading, loaded, or failed

vars == <<env, memory, player, reqs, files, calls, submitted, workers, win, proc>>

Reqs == 1..MaxReq
NoStore == [p \in {} |-> [bytes |-> 0, writes |-> 0]]

IdleReq ==
  [pc |-> "idle", msg |-> PyNone, received |-> <<>>, history |-> <<>>,
   ctx |-> <<>>, resp |-> <<>>, raw |-> <<>>, decoded |-> <<>>, spoke |-> <<>>,
   tts |-> "none", result |-> <<>>, out |-> <<>>, exc |-> "none",
   gen |-> 0, synth |-> 0, wrote |-> 0]

IdleWorker ==
  [pc |-> "idle", target |-> PyNone, voice |-> "", text |-> <<>>,
   path |-> <<>>, content |-> 0, sawArtifact |-> FALSE, hit |-> FALSE,
   after |-> 0]

IdleWin == [history |-> <<>>, n |-> 0, out |-> <<>>, called |-> FALSE]

\* ----------------------------------------------- the run's surroundings
Lit(c) == <<Q, c, Q>>
Member(key, val) == Lit(key) \o <<":">> \o val
Obj2(a, b) == <<"{">> \o a \o <<",", WS>> \o b \o <<"}">>
Obj3(a, b, c) == <<"{">> \o a \o <<",", WS>> \o b \o <<",", WS>> \o c \o <<"}">>

ContractMira ==
  Obj3(Member("speaker", Lit("Mira")), Member("text", Lit("Welcome.")),
       Member("location", Lit("dock")))
ContractNarrator ==
  <<WS>> \o Obj3(Member("speaker", Lit("Narrator")),
                 Member("text", Lit("The tavern falls quiet.")),
                 Member("location", <<Q, Q>>)) \o <<WS>>
ContractNoLocation == Obj2(Member("speaker", Lit("Old Tom")), Member("text", Lit("Aye.")))
ContractNoText == Obj2(Member("speaker", Lit("Mira")), Member("location", Lit("dock")))
ContractEmptyText == Obj2(Member("speaker", Lit("Mira")), Member("text", <<Q, Q>>))
UnknownSpeaker == Obj2(Member("speaker", Lit("Ghost")), Member("text", Lit("Boo.")))
NumberSpeaker == Obj2(Member("speaker", <<"7">>), Member("text", Lit("Boo.")))
NoSpeaker == <<"{">> \o Member("text", Lit("Boo.")) \o <<"}">>
NumberText == Obj2(Member("speaker", Lit("Mira")), Member("text", <<"7">>))
OtherKeys == <<"{">> \o Member("mood", Lit("grim")) \o <<"}">>
NotJson == <<"not valid json">>
PaddedNotJson == <<WS, "The bells", WS, "toll.", WS>>
CutJson == <<"{">> \o Member("speaker", Lit("Mira")) \o <<",">>

\* resp.text: None, or a str.
AllReplies ==
  {PyNone} \cup
  {PyStr(t) : t \in {ContractMira, ContractNarrator, ContractNoLocation, ContractNoText,
                     ContractEmptyText, UnknownSpeaker, NumberSpeaker, NoSpeaker,
                     NumberText, OtherKeys, <<"{", "}">>, NotJson, PaddedNotJson,
                     CutJson, <<"[", "7", "]">>, Lit("hello"), <<"7">>, <<"null">>}}

FewReplies == {PyStr(ContractMira), PyStr(NotJson), PyStr(ContractEmptyText)}

\* The value of the input box when Send is clicked: None before anything is
\* typed, or a str.
Messages == {PyNone, EmptyStr, PyStr(<<"Hello">>), PyStr(<<"Open the door">>)}

\* -------------------------------------------------------------- update_chat
InFlight(r) == reqs[r].pc \in {"gen", "tts", "resp"}

\* A slip: only a missing message short-circuits.
IsEmptyMessage_none(user_message) == user_message = PyNone

\* not user_message
IsEmptyMessage(user_message) == ~Truthy(user_message)

\* os.path.exists of a path set; <<>> is None, for which os.stat raises
\* TypeError, which os.path.exists does not catch.
PathExistsRaises(audio_path) == audio_path = <<>>

\* The rest of update_chat once generate_text_and_audio has returned result:
\* the reply is appended, the chat formatted, audio_src computed, and the
\* four outputs returned; or the TypeError leaves the callback.
AfterGenerate(rec, result, store) ==
  LET history == Append(rec.history, <<result.speaker, result.text>>)
  IN IF PathExistsRaises(result.audio_path)
       THEN [rec EXCEPT !.pc = "raised", !.exc = "TypeError", !.history = history,
                        !.result = <<result>>]
       ELSE [rec EXCEPT !.pc = "resp", !.history = history, !.result = <<result>>,
                        !.out = <<[history |-> history,
                                   audio_src |-> IF Exists(store, result.audio_path[1])
                                                   THEN result.audio_path ELSE <<>>]>>]

\* Send is clicked with user_message in the box: the callback is dispatched
\* with the browser's memory as its history, and runs to its first wait (the
\* generation call) or, for an empty message, to its return.
Click(r, user_message) ==
  /\ proc.phase = "running"
  /\ reqs[r].pc = "idle"
  /\ \A q \in Reqs : q < r => reqs[q].pc # "idle"
  /\ user_message \in env.messages
  /\ env.overlap \/ \A q \in Reqs : ~InFlight(q)
  /\ IF IsEmptyMessage(user_message)
       THEN /\ reqs' = [reqs EXCEPT ![r] =
                 [@ EXCEPT !.pc = "resp", !.msg = user_message, !.received = memory,
                           !.history = memory,
                           !.out = <<[history |-> memory, audio_src |-> <<>>]>>]]
            /\ UNCHANGED <<calls, submitted>>
       ELSE LET history == Append(memory, <<YOU, user_message>>)
            IN /\ reqs' = [reqs EXCEPT ![r] =
                    [@ EXCEPT !.pc = "gen", !.msg = user_message, !.received = memory,
                              !.history = history,
                              !.ctx = last_n_messages(history, DefaultWindow),
                              !.gen = @ + 1]]
               /\ calls' = [calls EXCEPT !.gen = @ + 1]
               /\ submitted' = Append(submitted, user_message)
  /\ UNCHANGED <<env, memory, player, files, workers, win, proc>>

\* client.models.generate_content raises: nothing in generate_text_and_audio
\* or update_chat catches it.
GenerationRaises(r) ==
  /\ reqs[r].pc = "gen"
  /\ reqs' = [reqs EXCEPT ![r] = [@ EXCEPT !.pc = "raised", !.exc = "generation"]]
  /\ UNCHANGED <<env, memory, player, files, calls, submitted, workers, win, proc>>

\* The generation service answers: steps 5 and 6 of generate_text_and_audio
\* up to the synthesis call, or, with no text to speak, to the end of
\* update_chat.
GenerationReturns(r, respText) ==
  /\ reqs[r].pc = "gen"
  /\ respText \in env.replies
  /\ LET raw == RawOf(respText)
         d == Decode(raw)
         speaker == ResolveSpeaker(d.speaker)
         rec == [reqs[r] EXCEPT !.resp = <<respText>>, !.raw = raw, !.decoded = <<d>>]
     IN IF Truthy(d.text)
          THEN reqs' = [reqs EXCEPT ![r] =
                 [rec EXCEPT !.pc = "tts",
                             !.spoke = <<[speaker |-> speaker, text |-> d.text]>>]]
          ELSE reqs' = [reqs EXCEPT ![r] =
                 AfterGenerate([rec EXCEPT !.tts = "skipped"],
                               [speaker |-> speaker, text |-> d.text,
                                location |-> d.location, audio_path |-> <<>>,
                                audio_src_base64 |-> <<>>],
                               files)]
  /\ UNCHANGED <<env, memory, player, files, calls, submitted, workers, win, proc>>

\* synthesize_line_mp3(character_target, text, characters_path, out_dir):
\* the voice is resolved, the store is looked up under the file name made of
\* the speaker's slug and the digest of (voice, text); a hit returns the
\* path with no call, a miss calls the service and stores what it returns.
\* works is FALSE when the voice cannot be resolved or the call fails.
synthesize_line_mp3(store, character_target, text, out_dir, works, bytes) ==
  LET voice_id == VoiceOfSpeaker(character_target)
      out_path == OutPath(out_dir, _safe_filename(character_target.v),
                          _hash_for(text.v, voice_id))
      hit == Exists(store, out_path)
  IN [raised |-> ~works,
      path |-> out_path,
      called |-> ~hit,
      wrote |-> works /\ ~hit,
      store |-> IF works /\ ~hit THEN WriteBytes(store, out_path, bytes) ELSE store]

\* A slip: a synthesis error leaves generate_text_and_audio.
TryTts_propagate(syn) ==
  [raised |-> syn.raised,
   audio_path |-> IF syn.raised THEN <<>> ELSE <<syn.path>>,
   audio_src_base64 |-> IF syn.raised \/ ~Exists(syn.store, syn.path)
                          THEN <<>> ELSE <<syn.store[syn.path].bytes>>]

\* The try block of step 6: audio_path is assigned when the call returns,
\* audio_src_b64 when the file is then read; `except Exception` ends either
\* failure there.
TryTts(syn) ==
  [raised |-> FALSE,
   audio_path |-> IF syn.raised THEN <<>> ELSE <<syn.path>>,
   audio_src_base64 |-> IF syn.raised \/ ~Exists(syn.store, syn.path)
                          THEN <<>> ELSE <<syn.store[syn.path].bytes>>]

\* The synthesis call of step 6 ends: generate_text_and_audio returns its
\* dict and update_chat runs to its end.
SynthesisEnds(r, works) ==
  /\ reqs[r].pc = "tts"
  /\ LET rec == reqs[r]
         said == rec.spoke[1]
         d == rec.decoded[1]
         syn == synthesize_line_mp3(files, said.speaker, said.text, "assets", works,
                                    calls.synth + 1)
         t == TryTts(syn)
         rec2 == [rec EXCEPT !.tts = IF syn.raised THEN "fail"
                                     ELSE IF syn.called THEN "ok" ELSE "hit",
                             !.synth = IF syn.called THEN @ + 1 ELSE @,
                             !.wrote = IF syn.wrote THEN @ + 1 ELSE @]
     IN /\ files' = syn.store
        /\ calls' = [calls EXCEPT !.synth = IF syn.called THEN @ + 1 ELSE @]
        /\ IF t.raised
             THEN reqs' = [reqs EXCEPT ![r] = [rec2 EXCEPT !.pc = "raised", !.exc = "tts"]]
             ELSE reqs' = [reqs EXCEPT ![r] =
                    AfterGenerate(rec2,
                                  [speaker |-> said.speaker, text |-> d.text,
                                   location |-> d.location, audio_path |-> t.audio_path,
                                   audio_src_base64 |-> t.audio_src_base64],
                                  syn.store)]
  /\ UNCHANGED <<env, memory, player, submitted, workers, win, proc>>

\* The browser receives the callback's outputs: memory and the player's src
\* are set (the chat display and the cleared input box are not modelled).
Deliver(r) ==
  /\ reqs[r].pc = "resp"
  /\ memory' = reqs[r].out[1].history
  /\ player' = [src |-> reqs[r].out[1].audio_src, pending |-> TRUE]
  /\ reqs' = [reqs EXCEPT ![r] = [@ EXCEPT !.pc = "done"]]
  /\ UNCHANGED <<env, files, calls, submitted, workers, win, proc>>

\* The clientside callback on the player's src: plays it, and returns the
\* memory it was given as the memory.
Autoplay ==
  /\ player.pending
  /\ memory' = memory
  /\ player' = [player EXCEPT !.pending = FALSE]
  /\ UNCHANGED <<env, reqs, files, calls, submitted, workers, win, proc>>

ChatNext ==
  \/ \E r \in Reqs, m \in Messages : Click(r, m)
  \/ \E r \in Reqs : GenerationRaises(r)
  \/ \E r \in Reqs, t \in AllReplies : GenerationReturns(r, t)
  \/ \E r \in Reqs, w \in BOOLEAN : SynthesisEnds(r, w)
  \/ \E r \in Reqs : Deliver(r)
  \/ Autoplay

InitState ==
  /\ memory = <<>>
  /\ player = [src |-> <<>>, pending |-> FALSE]
  /\ reqs = [r \in Reqs |-> IdleReq]
  /\ files = NoStore
  /\ calls = [gen |-> 0, synth |-> 0]
  /\ submitted = <<>>
  /\ workers = [w \in 1..MaxWorkers |-> IdleWorker]
  /\ win = IdleWin

\* os.getenv("GEMINI_API_KEY"): None, or the str the environment holds.
Keys == {PyNone, EmptyStr, PyStr(<<"key">>)}
Loaded == [key |-> PyStr(<<"key">>), phase |-> "running"]

\* A slip: the key is not looked at.
MissingKey_unchecked(key) == FALSE

\* not GEMINI_API_KEY
MissingKey(key) == ~Truthy(key)

\* The app's modules are loaded: app_test.py builds its own client from the
\* key (which the library may refuse when there is none) and imports
\* responseTextAudio, whose set-up raises RuntimeError on a missing key, so
\* that update_chat is never defined nor registered.
Startup(clientRaises) ==
  /\ proc.phase = "boot"
  /\ proc' = [proc EXCEPT !.phase =
       IF (clientRaises /\ ~Truthy(proc.key)) \/ MissingKey(proc.key)
         THEN "failed" ELSE "running"]
  /\ UNCHANGED <<env, memory, player, reqs, files, calls, submitted, workers, win>>

StartNext ==
  \/ \E c \in BOOLEAN : Startup(c)
  \/ ChatNext

\* The process from its start, with or without a key in its environment.
InitStart ==
  /\ env = [replies |-> FewReplies, messages |-> Messages, overlap |-> TRUE]
  /\ proc \in [key : Keys, phase : {"boot"}]
  /\ InitState

SpecStart == InitStart /\ [][StartNext]_vars

\* One conversation in which Send may be clicked while a reply is pending.
Init ==
  /\ proc = Loaded
  /\ env = [replies |-> FewReplies, messages |-> Messages, overlap |-> TRUE]
  /\ InitState

Spec == Init /\ [][ChatNext]_vars

\* One conversation, a turn at a time, against every reply of the service.
InitTurn ==
  /\ proc = Loaded
  /\ env = [replies |-> AllReplies, messages |-> Messages \ {PyStr(<<"Open the door">>)},
            overlap |-> FALSE]
  /\ InitState

SpecTurn == InitTurn /\ [][ChatNext]_vars

\* ------------------------------------------------------------ testVoice.py
PyInt(c) == [k |-> "num", v |-> <<c>>]

\* character_target of a request: a name of the roster, or an index into it.
Targets == {PyStr(<<"Mira">>), PyInt("0"), PyStr(<<"Old Tom">>)}

\* Two of the lines random_directional_line can draw.
Lines == { <<"[softly] Hush. Footsteps on the stairs.">>,
           <<"[grimly] I knew you'd say that.">> }

IndexOf(target) ==
  CASE target.v = <<"0">> -> 1
    [] target.v = <<"1">> -> 2
    [] OTHER -> 3

\* ensure_voice_id_for_character_in_file(character_target, characters_path):
\* the voice of the character the target names, or stands at the index of.
ensure_voice_id_for_character_in_file(target) ==
  IF target.k = "num" THEN CHARACTERS[IndexOf(target)].voiceId ELSE VoiceOfSpeaker(target)

HasArtifact(store, hash_part) == \E p \in DOMAIN store : p.hash = hash_part

\* A slip: the file is named after the digest alone.
VoicePath_hashonly(target, text, voice_id) ==
  OutPath("audio_cache", <<>>, _hash_for(text, voice_id))

\* Step 3: the output path, from str(character_target) and the digest.
VoicePath(target, text, voice_id) ==
  OutPath("audio_cache", _safe_filename(target.v), _hash_for(text, voice_id))

\* Steps 1 to 3 and the look-up: the voice, a line, the path, and the
\* return of an existing file.
VStart(w, target, text) ==
  /\ workers[w].pc = "idle"
  /\ \A q \in 1..MaxWorkers : q < w => workers[q].pc # "idle"
  /\ LET voice_id == ensure_voice_id_for_character_in_file(target)
         out_path == VoicePath(target, text, voice_id)
     IN workers' = [workers EXCEPT ![w] =
          [@ EXCEPT !.pc = IF Exists(files, out_path) THEN "done" ELSE "post",
                    !.target = target, !.voice = voice_id, !.text = text,
                    !.path = <<out_path>>,
                    !.sawArtifact = HasArtifact(files, _hash_for(text, voice_id)),
                    !.hit = Exists(files, out_path),
                    !.after = calls.synth]]
  /\ UNCHANGED <<env, memory, player, reqs, files, calls, submitted, win, proc>>

\* A slip: the body of a failed response is stored all the same.
VPost_storefailure(w, ok) ==
  /\ workers[w].pc = "post"
  /\ calls' = [calls EXCEPT !.synth = @ + 1]
  /\ workers' = [workers EXCEPT ![w] =
       IF ok THEN [@ EXCEPT !.pc = "write", !.content = calls.synth + 1]
             ELSE [@ EXCEPT !.pc = "failed"]]
  /\ files' = IF ok THEN files ELSE WriteBytes(files, workers[w].path[1], 0)
  /\ UNCHANGED <<env, memory, player, reqs, submitted, win, proc>>

\* Step 4: requests.post returns, or raises; a status of 400 or more raises
\* ElevenError.
VPost(w, ok) ==
  /\ workers[w].pc = "post"
  /\ calls' = [calls EXCEPT !.synth = @ + 1]
  /\ workers' = [workers EXCEPT ![w] =
       IF ok THEN [@ EXCEPT !.pc = "write", !.content = calls.synth + 1]
             ELSE [@ EXCEPT !.pc = "failed"]]
  /\ UNCHANGED <<env, memory, player, reqs, files, submitted, win, proc>>

\* out_path.write_bytes(r.content), and the return.
VWrite(w) ==
  /\ workers[w].pc = "write"
  /\ files' = WriteBytes(files, workers[w].path[1], workers[w].content)
  /\ workers' = [workers EXCEPT ![w] = [@ EXCEPT !.pc = "done"]]
  /\ UNCHANGED <<env, memory, player, reqs, calls, submitted, win, proc>>

VoiceNext ==
  \/ \E w \in 1..MaxWorkers, t \in Targets, l \in Lines : VStart(w, t, l)
  \/ \E w \in 1..MaxWorkers, ok \in BOOLEAN : VPost(w, ok)
  \/ \E w \in 1..MaxWorkers : VWrite(w)

\* Requests for samples, from one process or several, on one store.
SpecVoice == Init /\ [][VoiceNext]_vars

\* ------------------------------------------------------ the context window
Turns == {<<YOU, PyStr(<<"Hello">>)>>, <<NARRATOR, PyStr(<<"The bells toll.">>)>>,
          <<PyStr(<<"Mira">>), PyStr(<<"Welcome.">>)>>}

WinAppend(turn) ==
  /\ Len(win.history) < MaxHist
  /\ win' = [win EXCEPT !.history = Append(@, turn), !.called = FALSE]
  /\ UNCHANGED <<env, memory, player, reqs, files, calls, submitted, workers, proc>>

\* last_n_messages(history, n): the list is read, never written.
WinCall(n) ==
  /\ win' = [win EXCEPT !.n = n, !.out = last_n_messages(win.history, n), !.called = TRUE]
  /\ UNCHANGED <<env, memory, player, reqs, files, calls, submitted, workers, proc>>

WinNext ==
  \/ \E t \in Turns : WinAppend(t)
  \/ \E n \in 0..MaxN \cup {DefaultWindow} : WinCall(n)

SpecWindow == Init /\ [][WinNext]_vars

\* ------------------------------------------------------------- properties
Known == CHAR_NAMES \cup {NARRATOR}
Returned(r) == reqs[r].result # <<>>
LastTurn(h) == h[Len(h)]

\* C1: when the generation call raises or the synthesis fails, update_chat
\* still returns, and the history it returns ends with a text-only line of
\* the narrator.
C1_FailureDegradesToNarratorLine ==
  \A r \in Reqs :
    (reqs[r].exc = "generation" \/ reqs[r].tts = "fail") =>
      /\ reqs[r].pc # "raised"
      /\ reqs[r].out # <<>> =>
           /\ LastTurn(reqs[r].out[1].history)[1] = NARRATOR
           /\ reqs[r].out[1].audio_src = <<>>

\* C2: when the synthesis fails, generate_text_and_audio returns its dict
\* with the resolved speaker, the decoded text and location, and neither
\* audio field; the error does not leave it.
C2_SynthesisFailureIsTextOnly ==
  \A r \in Reqs :
    reqs[r].tts = "fail" =>
      /\ reqs[r].exc # "tts"
      /\ Returned(r)
      /\ reqs[r].result[1].speaker = reqs[r].spoke[1].speaker
      /\ reqs[r].result[1].text = reqs[r].decoded[1].text
      /\ reqs[r].result[1].location = reqs[r].decoded[1].location
      /\ reqs[r].result[1].audio_path = <<>>
      /\ reqs[r].result[1].audio_src_base64 = <<>>

C2_Witness ==
  \E r \in Reqs :
    /\ reqs[r].tts = "fail"
    /\ Returned(r)
    /\ reqs[r].result[1].speaker = PyStr(<<"Mira">>)
    /\ reqs[r].result[1].text = PyStr(<<"Welcome.">>)
    /\ reqs[r].result[1].audio_path = <<>>

\* The shape of the contract: an object whose speaker and text are strings,
\* and whose location, when it has one, is a string.
ContractShape(data) ==
  /\ HasGet(data)
  /\ <<"speaker">> \in DOMAIN data.m /\ data.m[<<"speaker">>].k = "str"
  /\ <<"text">> \in DOMAIN data.m /\ data.m[<<"text">>].k = "str"
  /\ <<"location">> \in DOMAIN data.m => data.m[<<"location">>].k = "str"

IsFallback(r) ==
  /\ reqs[r].result[1].speaker = NARRATOR
  /\ reqs[r].result[1].text = PyStr(reqs[r].raw)
  /\ reqs[r].result[1].location = EmptyStr

\* C3 as stated: an output that is not JSON of the contract's shape comes
\* back as the narrator saying the raw text, with no location.
C3_AnyViolationFallsBack ==
  \A r \in Reqs :
    (Returned(r) /\ ~ContractShape(JsonLoads(reqs[r].raw))) => IsFallback(r)

\* C3 amended: an output that is not JSON, or is JSON but no object, comes
\* back as the narrator saying the response text, stripped of the whitespace
\* around it, with no location; and generate_text_and_audio returns.
C3_NonObjectFallsBack ==
  \A r \in Reqs :
    (reqs[r].decoded # <<>> /\ ~HasGet(JsonLoads(reqs[r].raw))) =>
      /\ reqs[r].raw = Strip(reqs[r].resp[1].v)
      /\ reqs[r].decoded[1] = [speaker |-> NARRATOR, text |-> PyStr(reqs[r].raw),
                               location |-> EmptyStr]
      /\ reqs[r].exc \in {"none", "TypeError"}
      /\ reqs[r].pc # "tts" => Returned(r) /\ IsFallback(r)

C3_Witness ==
  \E r \in Reqs :
    /\ Returned(r)
    /\ reqs[r].resp = <<PyStr(PaddedNotJson)>>
    /\ reqs[r].result[1].text = PyStr(<<"The bells", WS, "toll.">>)
    /\ reqs[r].result[1].speaker = NARRATOR

\* The speaker a request has resolved: the one handed to the synthesis, and
\* the one of its result.
ResolvedSpeakers(r) ==
  {reqs[r].spoke[i].speaker : i \in 1..Len(reqs[r].spoke)}
    \cup {reqs[r].result[i].speaker : i \in 1..Len(reqs[r].result)}

\* C7: the resolved speaker is the decoded one when that is a character's
\* name or the narrator, and the narrator otherwise; resolving it again
\* changes nothing; so the speaker synthesized and returned is always known.
C7_SpeakerIsResolved ==
  \A r \in Reqs :
    \A s \in ResolvedSpeakers(r) :
      /\ s = IF reqs[r].decoded[1].speaker \in Known
               THEN reqs[r].decoded[1].speaker ELSE NARRATOR
      /\ s \in Known
      /\ ResolveSpeaker(s) = s

C7_Witness ==
  \E r \in Reqs :
    /\ reqs[r].spoke # <<>>
    /\ reqs[r].decoded[1].speaker = PyStr(<<"Ghost">>)
    /\ reqs[r].spoke[1].speaker = NARRATOR

FieldOr(data, key, default) ==
  IF <<key>> \in DOMAIN data.m THEN data.m[<<key>>] ELSE default

\* The contract's shape with text and location optional, and a known speaker.
KnownContract(data) ==
  /\ HasGet(data)
  /\ <<"speaker">> \in DOMAIN data.m /\ data.m[<<"speaker">>] \in Known
  /\ \A key \in {<<"text">>, <<"location">>} : key \in DOMAIN data.m => data.m[key].k = "str"

\* C8: an output of the contract's shape with a known speaker comes back
\* with its speaker, text and location as decoded, an absent text or
\* location as the empty string.
C8_ContractIsReturnedAsDecoded ==
  \A r \in Reqs :
    LET data == JsonLoads(reqs[r].raw)
    IN (Returned(r) /\ KnownContract(data)) =>
         /\ reqs[r].result[1].speaker = data.m[<<"speaker">>]
         /\ reqs[r].result[1].text = FieldOr(data, "text", EmptyStr)
         /\ reqs[r].result[1].location = FieldOr(data, "location", EmptyStr)

C8_Witness ==
  \E r \in Reqs :
    /\ Returned(r)
    /\ reqs[r].resp = <<PyStr(ContractNoLocation)>>
    /\ reqs[r].result[1].speaker = PyStr(<<"Old Tom">>)
    /\ reqs[r].result[1].text = PyStr(<<"Aye.">>)
    /\ reqs[r].result[1].location = EmptyStr

\* Every callback dispatched has returned and its outputs have reached the
\* browser.
AllDelivered == \A r \in Reqs : reqs[r].pc \in {"idle", "done"}

\* No callback was dispatched with an empty message.
OnlyMessages == \A r \in Reqs : reqs[r].pc # "idle" => Truthy(reqs[r].msg)

\* C6: once every reply has come back, the stored history holds every
\* message sent, each followed by its reply, in the order of sending (stated
\* here for the runs in which every message sent is non-empty).
C6_HistoryKeepsEveryTurnInOrder ==
  (AllDelivered /\ OnlyMessages) =>
    /\ Len(memory) = 2 * Len(submitted)
    /\ \A i \in 1..Len(submitted) :
         /\ memory[2 * i - 1] = <<YOU, submitted[i]>>
         /\ memory[2 * i][1] # YOU

\* C10: an empty message short-circuits update_chat: no generation call, no
\* synthesis call, no file written, and the history returned (and then
\* stored) is the history received.
C10_EmptyMessageShortCircuits ==
  \A r \in Reqs :
    (reqs[r].pc # "idle" /\ reqs[r].msg \in {PyNone, EmptyStr}) =>
      /\ reqs[r].gen = 0 /\ reqs[r].synth = 0 /\ reqs[r].wrote = 0
      /\ reqs[r].pc \in {"resp", "done"}
      /\ reqs[r].result = <<>>
      /\ reqs[r].history = reqs[r].received
      /\ reqs[r].out = <<[history |-> reqs[r].received, audio_src |-> <<>>]>>

C10_Witness ==
  \E r \in Reqs :
    /\ reqs[r].pc = "done"
    /\ reqs[r].msg = EmptyStr
    /\ reqs[r].received # <<>>
    /\ reqs[r].out[1].history = reqs[r].received
    /\ calls.gen = 1

Hashes == {p.hash : p \in DOMAIN files}

\* C4: the store holds one artifact for a (voice, text) pair, and a request
\* that starts when the pair has an artifact finds it, whatever name or
\* index it is addressed to.
C4_OneArtifactPerVoiceAndText ==
  /\ \A h \in Hashes : Cardinality({p \in DOMAIN files : p.hash = h}) = 1
  /\ \A w \in 1..MaxWorkers : workers[w].sawArtifact => workers[w].hit

\* C5: a file of the store is written once.
C5_WriteOncePerKey == \A p \in DOMAIN files : files[p].writes <= 1

\* C9: last_n_messages(history, n) is the last n turns of a history longer
\* than n, in order, and the whole history otherwise.
C9_WindowIsLastN ==
  win.called =>
    win.out = IF Len(win.history) > win.n
                THEN SubSeq(win.history, Len(win.history) - win.n + 1, Len(win.history))
                ELSE win.history

\* The generation output decoded (a JSON object) to an empty or absent text.
DecodedEmptyText(r) ==
  /\ reqs[r].decoded # <<>>
  /\ HasGet(JsonLoads(reqs[r].raw))
  /\ ~Truthy(DataGet(JsonLoads(reqs[r].raw), "text"))

\* C11: a decoded output with an empty or absent text is no error: the reply
\* text is the empty string, the synthesis is skipped (no call, no file, no
\* audio field), and the turn completes and is delivered without an
\* exception.
C11_EmptyTextTurnCompletes ==
  \A r \in Reqs :
    DecodedEmptyText(r) =>
      /\ Returned(r)
      /\ reqs[r].result[1].text = EmptyStr
      /\ reqs[r].result[1].audio_path = <<>>
      /\ reqs[r].result[1].audio_src_base64 = <<>>
      /\ reqs[r].synth = 0 /\ reqs[r].wrote = 0 /\ reqs[r].spoke = <<>>
      /\ reqs[r].exc = "none"
      /\ reqs[r].pc \in {"resp", "done"}

IsPrefix(a, b) == Len(a) <= Len(b) /\ SubSeq(b, 1, Len(a)) = a
Ended(r) == reqs[r].pc \in {"resp", "done", "raised"}

\* C13: a call of update_chat keeps every turn of the history it was given,
\* each at its place, and a call with a non-empty message has appended two
\* turns when it ends: ("You", message), then (resolved speaker, reply text).
C13_CallAppendsTwoTurns ==
  \A r \in Reqs :
    /\ IsPrefix(reqs[r].received, reqs[r].history)
    /\ (Ended(r) /\ Truthy(reqs[r].msg)) =>
         LET n == Len(reqs[r].received)
         IN /\ Len(reqs[r].history) = n + 2
            /\ reqs[r].history[n + 1] = <<YOU, reqs[r].msg>>
            /\ reqs[r].history[n + 2][1] \in Known
            /\ Returned(r)
            /\ reqs[r].history[n + 2] =
                 <<reqs[r].result[1].speaker, reqs[r].result[1].text>>

\* The requests that missed and stored what the service returned.
Writers(path) ==
  {w \in 1..MaxWorkers : workers[w].path = path /\ workers[w].pc = "done" /\ ~workers[w].hit}

\* The requests that have placed their call with the service.
Callers ==
  {w \in 1..MaxWorkers :
     \/ workers[w].pc \in {"write", "failed"}
     \/ workers[w].pc = "done" /\ ~workers[w].hit}

\* C14: a failed synthesis leaves the store as it was: a file is there only
\* when a request that succeeded wrote it, so a request for a key whose
\* attempts have all failed misses again, and every miss calls the service.
C14_FailureIsNotCached ==
  /\ \A p \in DOMAIN files : Writers(<<p>>) # {}
  /\ \A w \in 1..MaxWorkers : workers[w].hit => Writers(workers[w].path) # {}
  /\ calls.synth = Cardinality(Callers)

\* A request fails; a later one for the same key misses, calls the service
\* again and stores the file.
C14_Witness ==
  /\ workers[1].pc = "failed"
  /\ workers[2].path = workers[1].path
  /\ workers[2].after = 1
  /\ ~workers[2].hit
  /\ workers[2].pc = "done"
  /\ calls.synth = 2
  /\ files[workers[2].path[1]].writes = 1

\* C12: with no GEMINI_API_KEY the app does not start: loading its modules
\* fails, and no step of the pipeline ever runs in that process.
C12_NoKeyNoStart ==
  ~Truthy(proc.key) =>
    /\ proc.phase \in {"boot", "failed"}
    /\ \A r \in Reqs : reqs[r] = IdleReq
    /\ calls = [gen |-> 0, synth |-> 0]
    /\ memory = <<>> /\ submitted = <<>> /\ files = NoStore

C12_Witness == proc.key = PyNone /\ proc.phase = "failed"

====
